---- MODULE Spec2Model ----
(***************************************************************************)
(* Constant-time reward distribution for a staking pool, in the two        *)
(* variants of pallets/rewards:                                            *)
(*   "deferred"  deferred_rewards_example.py  (lost-reward redistribution) *)
(*   "gap"       gap_rewards_example.py       (pending stake, rate history)*)
(* Both files define a class PullBasedDistribution; the operators that     *)
(* model its methods carry the prefix deferred_ or gap_ of their file.     *)
(*                                                                         *)
(* Arithmetic.  Stake amounts and rewards are Python ints; the rates,      *)
(* tallies and rewards derived from them by `/` are modelled as exact      *)
(* rationals <<numerator, denominator>> in lowest terms.  The rounding of  *)
(* IEEE doubles is not modelled: every statement below is about the        *)
(* algorithm over the rationals.                                           *)
(***************************************************************************)
EXTENDS Integers, Sequences, FiniteSets, TLC

\* ---------------------------------------------------------------- bounds
MaxStake  == 2      \* stake amounts are 0..MaxStake and the staked total stays <= MaxStake
MaxReward == 1      \* distribute rewards are 0..MaxReward
MaxCalls  == 5      \* a run makes at most MaxCalls calls

\* The two keys of the per-account dictionaries (0x1, 0x2).
Addresses == {1, 2}

\* ------------------------------------------------------------ rationals
Abs(n) == IF n < 0 THEN -n ELSE n

RECURSIVE GCD(_, _)
GCD(a, b) == IF b = 0 THEN a ELSE GCD(b, a % b)

\* n/d in lowest terms with a positive denominator (d # 0).
Norm(n, d) ==
    LET s == IF d < 0 THEN -1 ELSE 1
        g == GCD(Abs(n), Abs(d))
    IN  << (s * n) \div g, (s * d) \div g >>

Zero == << 0, 1 >>
FromInt(i) == << i, 1 >>
Add(x, y) == Norm(x[1] * y[2] + y[1] * x[2], x[2] * y[2])
Sub(x, y) == Norm(x[1] * y[2] - y[1] * x[2], x[2] * y[2])
Div(x, y) == Norm(x[1] * y[2], x[2] * y[1])
Scale(i, x) == Norm(i * x[1], x[2])
Leq(x, y) == x[1] * y[2] <= y[1] * x[2]
Less(x, y) == x[1] * y[2] < y[1] * x[2]

Max(a, b) == IF a >= b THEN a ELSE b
Min(a, b) == IF a <= b THEN a ELSE b

RECURSIVE SumOver(_, _)
SumOver(f, S) ==
    IF S = {} THEN 0
    ELSE LET a == CHOOSE x \in S : TRUE IN f[a] + SumOver(f, S \ {a})

\* ------------------------------------------------- outcome of one call
Ok(self)         == [self |-> self, raised |-> "none", value |-> Zero]
Return(self, v)  == [self |-> self, raised |-> "none", value |-> v]
Raise(self, msg) == [self |-> self, raised |-> msg,    value |-> Zero]

EmptyPool         == "Cannot distribute to staking pool with 0 stake"
InsufficientStake == "Requested amount greater than staked amount"

\* ============================================================ deferred
deferred_init ==
    [ total_stake             |-> 0,
      reward_per_token        |-> Zero,
      last_rate               |-> Zero,
      lost_reward             |-> Zero,
      current_distribution_id |-> 0,
      stake                   |-> [a \in Addresses |-> 0],
      reward_tally            |-> [a \in Addresses |-> Zero],
      rewarded_stake          |-> [a \in Addresses |-> 0],
      distribution_id         |-> [a \in Addresses |-> 0] ]

deferred_update_rewarded_stake(self, address) ==
    IF self.distribution_id[address] # self.current_distribution_id
    THEN [self EXCEPT !.distribution_id[address] = self.current_distribution_id,
                      !.rewarded_stake[address]  = self.stake[address]]
    ELSE self

\* Fault: last_rate accumulates the rates instead of holding the latest one.
deferred_distribute_accumulates_rate(self, reward) ==
    IF self.total_stake = 0
    THEN Raise(self, EmptyPool)
    ELSE LET rate == Div(Add(FromInt(reward), self.lost_reward),
                         FromInt(self.total_stake))
         IN  Ok([self EXCEPT !.last_rate = Add(@, rate),
                             !.reward_per_token = Add(self.reward_per_token, rate),
                             !.lost_reward = Zero,
                             !.current_distribution_id = @ + 1])

\* Fault: the forfeited reward is taken off the reward instead of added to it.
deferred_distribute_subtracts_lost(self, reward) ==
    IF self.total_stake = 0
    THEN Raise(self, EmptyPool)
    ELSE LET rate == Div(Sub(FromInt(reward), self.lost_reward),
                         FromInt(self.total_stake))
         IN  Ok([self EXCEPT !.last_rate = rate,
                             !.reward_per_token = Add(self.reward_per_token, rate),
                             !.lost_reward = Zero,
                             !.current_distribution_id = @ + 1])

deferred_distribute(self, reward) ==
    IF self.total_stake = 0
    THEN Raise(self, EmptyPool)
    ELSE LET rate == Div(Add(FromInt(reward), self.lost_reward),
                         FromInt(self.total_stake))
         IN  Ok([self EXCEPT !.last_rate = rate,
                             !.reward_per_token = Add(self.reward_per_token, rate),
                             !.lost_reward = Zero,
                             !.current_distribution_id = @ + 1])

\* Fault: the deposit does not add reward_per_token * amount to the tally, so
\* the new stake counts as if it had earned every past distribution.
deferred_deposit_stake_skips_tally(self, address, amount) ==
    LET s == deferred_update_rewarded_stake(self, address)
    IN  Ok([s EXCEPT !.stake[address] = @ + amount,
                     !.total_stake = @ + amount])

deferred_deposit_stake(self, address, amount) ==
    LET s == deferred_update_rewarded_stake(self, address)
    IN  Ok([s EXCEPT !.stake[address] = @ + amount,
                     !.reward_tally[address] =
                         Add(@, Scale(amount, s.reward_per_token)),
                     !.total_stake = @ + amount])

\* Fault: the forfeited reward is taken off the tally but not added to
\* lost_reward.
deferred_withdraw_stake_drops_lost(self, address, amount) ==
    IF amount > self.stake[address]
    THEN Raise(self, InsufficientStake)
    ELSE LET s == deferred_update_rewarded_stake(self, address)
             unrewarded_stake  == Max(s.stake[address] - s.rewarded_stake[address], 0)
             unrewarded_amount == Min(amount, unrewarded_stake)
             rewarded_amount   == amount - unrewarded_amount
             lost_reward       == Scale(rewarded_amount, s.last_rate)
         IN  Ok([s EXCEPT !.stake[address] = @ - amount,
                          !.reward_tally[address] =
                              Sub(@, Sub(Scale(amount, s.reward_per_token), lost_reward)),
                          !.total_stake = @ - amount,
                          !.rewarded_stake[address] = @ - rewarded_amount])

\* Fault: the whole withdrawn amount forfeits reward, the stake deposited
\* since the last distribution included.
deferred_withdraw_stake_forfeits_all(self, address, amount) ==
    IF amount > self.stake[address]
    THEN Raise(self, InsufficientStake)
    ELSE LET s == deferred_update_rewarded_stake(self, address)
             unrewarded_stake  == Max(s.stake[address] - s.rewarded_stake[address], 0)
             unrewarded_amount == Min(amount, unrewarded_stake)
             rewarded_amount   == amount - unrewarded_amount
             lost_reward       == Scale(amount, s.last_rate)
         IN  Ok([s EXCEPT !.stake[address] = @ - amount,
                          !.reward_tally[address] =
                              Sub(@, Sub(Scale(amount, s.reward_per_token), lost_reward)),
                          !.total_stake = @ - amount,
                          !.rewarded_stake[address] = @ - rewarded_amount,
                          !.lost_reward = Add(@, lost_reward)])

\* Fault: the withdrawn rewarded stake is not taken off rewarded_stake.
deferred_withdraw_stake_keeps_rewarded(self, address, amount) ==
    IF amount > self.stake[address]
    THEN Raise(self, InsufficientStake)
    ELSE LET s == deferred_update_rewarded_stake(self, address)
             unrewarded_stake  == Max(s.stake[address] - s.rewarded_stake[address], 0)
             unrewarded_amount == Min(amount, unrewarded_stake)
             rewarded_amount   == amount - unrewarded_amount
             lost_reward       == Scale(rewarded_amount, s.last_rate)
         IN  Ok([s EXCEPT !.stake[address] = @ - amount,
                          !.reward_tally[address] =
                              Sub(@, Sub(Scale(amount, s.reward_per_token), lost_reward)),
                          !.total_stake = @ - amount,
                          !.lost_reward = Add(@, lost_reward)])

deferred_withdraw_stake(self, address, amount) ==
    IF amount > self.stake[address]
    THEN Raise(self, InsufficientStake)
    ELSE LET s == deferred_update_rewarded_stake(self, address)
             unrewarded_stake  == Max(s.stake[address] - s.rewarded_stake[address], 0)
             unrewarded_amount == Min(amount, unrewarded_stake)
             rewarded_amount   == amount - unrewarded_amount
             lost_reward       == Scale(rewarded_amount, s.last_rate)
         IN  Ok([s EXCEPT !.stake[address] = @ - amount,
                          !.reward_tally[address] =
                              Sub(@, Sub(Scale(amount, s.reward_per_token), lost_reward)),
                          !.total_stake = @ - amount,
                          !.rewarded_stake[address] = @ - rewarded_amount,
                          !.lost_reward = Add(@, lost_reward)])

\* Fault: the stale case is forgotten, rewarded_stake is used as it stands.
deferred_compute_reward_unsettled(self, address) ==
    Sub(Sub(Scale(self.stake[address], self.reward_per_token),
            self.reward_tally[address]),
        Scale(self.rewarded_stake[address], self.last_rate))

\* Fault: the two cases are exchanged (rewarded_stake for a stale account,
\* stake for a settled one).
deferred_compute_reward_swapped(self, address) ==
    LET previous_stake ==
            IF self.distribution_id[address] # self.current_distribution_id
            THEN self.rewarded_stake[address]
            ELSE self.stake[address]
    IN  Sub(Sub(Scale(self.stake[address], self.reward_per_token),
                self.reward_tally[address]),
            Scale(previous_stake, self.last_rate))

\* Fault: the share of the most recent distribution is not withheld.
deferred_compute_reward_undeferred(self, address) ==
    Sub(Scale(self.stake[address], self.reward_per_token),
        self.reward_tally[address])

deferred_compute_reward(self, address) ==
    LET previous_stake ==
            IF self.distribution_id[address] # self.current_distribution_id
            THEN self.stake[address]
            ELSE self.rewarded_stake[address]
    IN  Sub(Sub(Scale(self.stake[address], self.reward_per_token),
                self.reward_tally[address]),
            Scale(previous_stake, self.last_rate))

\* Fault: a claim leaves the tally as it was, so that the next claim pays the
\* same reward again.
deferred_withdraw_reward_keeps_tally(self, address) ==
    Return(self, deferred_compute_reward(self, address))

\* Fault: the tally is set to stake * reward_per_token, as in the gap policy,
\* which marks the withheld share of the most recent distribution as paid.
deferred_withdraw_reward_resets_tally(self, address) ==
    LET reward == deferred_compute_reward(self, address)
    IN  Return([self EXCEPT !.reward_tally[address] =
                               Scale(self.stake[address], self.reward_per_token)],
               reward)

deferred_withdraw_reward(self, address) ==
    LET reward == deferred_compute_reward(self, address)
    IN  Return([self EXCEPT !.reward_tally[address] = Add(@, reward)], reward)

\* ================================================================= gap
gap_init ==
    [ total_stake              |-> 0,
      total_pending_stake      |-> 0,
      reward_per_token         |-> Zero,
      reward_per_token_history |-> << >>,
      current_distribution_id  |-> 0,
      stake                    |-> [a \in Addresses |-> 0],
      reward_tally             |-> [a \in Addresses |-> Zero],
      pending_stake            |-> [a \in Addresses |-> 0],
      distribution_id          |-> [a \in Addresses |-> 0] ]

\* reward_per_token_history is a dict keyed by epoch: a function whose
\* domain is the set of recorded epochs.  Reading a missing key (KeyError)
\* is the application of the function outside its domain, which TLC reports
\* as an error of the run.
gap_update_state(self, address) ==
    IF self.distribution_id[address] # self.current_distribution_id
    THEN [self EXCEPT
            !.stake[address] = @ + self.pending_stake[address],
            !.reward_tally[address] =
                Add(@, Scale(self.pending_stake[address],
                             self.reward_per_token_history[self.distribution_id[address]])),
            !.distribution_id[address] = self.current_distribution_id,
            !.pending_stake[address] = 0]
    ELSE self

\* Fault: the pending stake is dropped instead of folded into the total.
gap_distribute_drops_pending(self, reward) ==
    LET rpt == IF self.total_stake > 0
               THEN Add(self.reward_per_token,
                        Div(FromInt(reward), FromInt(self.total_stake)))
               ELSE self.reward_per_token
        prev_distribution_id == self.current_distribution_id
    IN  Ok([self EXCEPT
              !.reward_per_token = rpt,
              !.reward_per_token_history =
                  [k \in (DOMAIN @) \cup {prev_distribution_id} |->
                      IF k = prev_distribution_id THEN rpt ELSE @[k]],
              !.current_distribution_id = @ + 1,
              !.total_pending_stake = 0])

\* Fault: the history entry is recorded before the reward is added to
\* reward_per_token.
gap_distribute_records_first(self, reward) ==
    LET rpt == IF self.total_stake > 0
               THEN Add(self.reward_per_token,
                        Div(FromInt(reward), FromInt(self.total_stake)))
               ELSE self.reward_per_token
        prev_distribution_id == self.current_distribution_id
    IN  Ok([self EXCEPT
              !.reward_per_token = rpt,
              !.reward_per_token_history =
                  [k \in (DOMAIN @) \cup {prev_distribution_id} |->
                      IF k = prev_distribution_id
                      THEN self.reward_per_token ELSE @[k]],
              !.current_distribution_id = @ + 1,
              !.total_stake = @ + self.total_pending_stake,
              !.total_pending_stake = 0])

\* Fault: the pending stake is folded into the total before the rate is taken.
gap_distribute_folds_first(self, reward) ==
    LET total == self.total_stake + self.total_pending_stake
        rpt == IF total > 0
               THEN Add(self.reward_per_token, Div(FromInt(reward), FromInt(total)))
               ELSE self.reward_per_token
        prev_distribution_id == self.current_distribution_id
    IN  Ok([self EXCEPT
              !.reward_per_token = rpt,
              !.reward_per_token_history =
                  [k \in (DOMAIN @) \cup {prev_distribution_id} |->
                      IF k = prev_distribution_id THEN rpt ELSE @[k]],
              !.current_distribution_id = @ + 1,
              !.total_stake = total,
              !.total_pending_stake = 0])

\* Fault: every entry of the history is rewritten with the current rate.
gap_distribute_rewrites_history(self, reward) ==
    LET rpt == IF self.total_stake > 0
               THEN Add(self.reward_per_token,
                        Div(FromInt(reward), FromInt(self.total_stake)))
               ELSE self.reward_per_token
        prev_distribution_id == self.current_distribution_id
    IN  Ok([self EXCEPT
              !.reward_per_token = rpt,
              !.reward_per_token_history =
                  [k \in (DOMAIN @) \cup {prev_distribution_id} |-> rpt],
              !.current_distribution_id = @ + 1,
              !.total_stake = @ + self.total_pending_stake,
              !.total_pending_stake = 0])

\* Fault: with no active stake the reward is shared among the pending stake.
gap_distribute_pays_pending(self, reward) ==
    LET rpt == IF self.total_stake > 0
               THEN Add(self.reward_per_token,
                        Div(FromInt(reward), FromInt(self.total_stake)))
               ELSE IF self.total_pending_stake > 0
               THEN Add(self.reward_per_token,
                        Div(FromInt(reward), FromInt(self.total_pending_stake)))
               ELSE self.reward_per_token
        prev_distribution_id == self.current_distribution_id
    IN  Ok([self EXCEPT
              !.reward_per_token = rpt,
              !.reward_per_token_history =
                  [k \in (DOMAIN @) \cup {prev_distribution_id} |->
                      IF k = prev_distribution_id THEN rpt ELSE @[k]],
              !.current_distribution_id = @ + 1,
              !.total_stake = @ + self.total_pending_stake,
              !.total_pending_stake = 0])

\* Fault: distribute settles every account itself, folding its pending stake
\* into its stake, instead of leaving that to the account's next call.
gap_distribute_settles_accounts(self, reward) ==
    LET rpt == IF self.total_stake > 0
               THEN Add(self.reward_per_token,
                        Div(FromInt(reward), FromInt(self.total_stake)))
               ELSE self.reward_per_token
        prev_distribution_id == self.current_distribution_id
    IN  Ok([self EXCEPT
              !.reward_per_token = rpt,
              !.reward_per_token_history =
                  [k \in (DOMAIN @) \cup {prev_distribution_id} |->
                      IF k = prev_distribution_id THEN rpt ELSE @[k]],
              !.current_distribution_id = @ + 1,
              !.total_stake = @ + self.total_pending_stake,
              !.total_pending_stake = 0,
              !.stake = [a \in Addresses |-> @[a] + self.pending_stake[a]],
              !.pending_stake = [a \in Addresses |-> 0]])

gap_distribute(self, reward) ==
    LET rpt == IF self.total_stake > 0
               THEN Add(self.reward_per_token,
                        Div(FromInt(reward), FromInt(self.total_stake)))
               ELSE self.reward_per_token
        prev_distribution_id == self.current_distribution_id
    IN  Ok([self EXCEPT
              !.reward_per_token = rpt,
              !.reward_per_token_history =
                  [k \in (DOMAIN @) \cup {prev_distribution_id} |->
                      IF k = prev_distribution_id THEN rpt ELSE @[k]],
              !.current_distribution_id = @ + 1,
              !.total_stake = @ + self.total_pending_stake,
              !.total_pending_stake = 0])

gap_deposit_stake(self, address, amount) ==
    LET s == gap_update_state(self, address)
    IN  Ok([s EXCEPT !.pending_stake[address] = @ + amount,
                     !.total_pending_stake = @ + amount])

\* Fault: the amount is not validated against the stake of the account.
gap_withdraw_stake_unchecked(self, address, amount) ==
    LET s == gap_update_state(self, address)
        pending_amount  == Min(amount, s.pending_stake[address])
        computed_amount == amount - pending_amount
    IN  Ok([s EXCEPT !.pending_stake[address] = @ - pending_amount,
                     !.total_pending_stake = @ - pending_amount,
                     !.stake[address] = @ - computed_amount,
                     !.reward_tally[address] =
                         Sub(@, Scale(computed_amount, s.reward_per_token)),
                     !.total_stake = @ - computed_amount])

\* Fault: the amount is drawn from the active stake first, and from the
\* pending stake only for what the active stake cannot cover.
gap_withdraw_stake_active_first(self, address, amount) ==
    IF amount > self.stake[address] + self.pending_stake[address]
    THEN Raise(self, InsufficientStake)
    ELSE LET s == gap_update_state(self, address)
             computed_amount == Min(amount, s.stake[address])
             pending_amount  == amount - computed_amount
         IN  Ok([s EXCEPT !.pending_stake[address] = @ - pending_amount,
                          !.total_pending_stake = @ - pending_amount,
                          !.stake[address] = @ - computed_amount,
                          !.reward_tally[address] =
                              Sub(@, Scale(computed_amount, s.reward_per_token)),
                          !.total_stake = @ - computed_amount])

\* Fault: the account is settled before the amount is validated.
gap_withdraw_stake_settles_first(self, address, amount) ==
    LET s == gap_update_state(self, address)
    IN  IF amount > s.stake[address] + s.pending_stake[address]
        THEN Raise(s, InsufficientStake)
        ELSE LET pending_amount  == Min(amount, s.pending_stake[address])
                 computed_amount == amount - pending_amount
             IN  Ok([s EXCEPT !.pending_stake[address] = @ - pending_amount,
                              !.total_pending_stake = @ - pending_amount,
                              !.stake[address] = @ - computed_amount,
                              !.reward_tally[address] =
                                  Sub(@, Scale(computed_amount, s.reward_per_token)),
                              !.total_stake = @ - computed_amount])

gap_withdraw_stake(self, address, amount) ==
    IF amount > self.stake[address] + self.pending_stake[address]
    THEN Raise(self, InsufficientStake)
    ELSE LET s == gap_update_state(self, address)
             pending_amount  == Min(amount, s.pending_stake[address])
             computed_amount == amount - pending_amount
         IN  Ok([s EXCEPT !.pending_stake[address] = @ - pending_amount,
                          !.total_pending_stake = @ - pending_amount,
                          !.stake[address] = @ - computed_amount,
                          !.reward_tally[address] =
                              Sub(@, Scale(computed_amount, s.reward_per_token)),
                          !.total_stake = @ - computed_amount])

gap_compute_reward(self, address) ==
    LET stale == self.distribution_id[address] # self.current_distribution_id
        stake == IF stale
                 THEN self.stake[address] + self.pending_stake[address]
                 ELSE self.stake[address]
        reward_tally ==
            IF stale
            THEN Add(self.reward_tally[address],
                     Scale(self.pending_stake[address],
                           self.reward_per_token_history[self.distribution_id[address]]))
            ELSE self.reward_tally[address]
    IN  Sub(Scale(stake, self.reward_per_token), reward_tally)

gap_withdraw_reward(self, address) ==
    LET s == gap_update_state(self, address)
        reward == gap_compute_reward(s, address)
    IN  Return([s EXCEPT !.reward_tally[address] =
                            Scale(s.stake[address], s.reward_per_token)],
               reward)

\* =============================================================== state
VARIABLES
    policy,     \* which of the two classes `contract` is an instance of
    contract,   \* the fields of the PullBasedDistribution instance
    op,         \* the last call made on it: its arguments, what it raised,
                \* whether its account was stale when it was made, and
                \* whether it repeats the call before it
    ret,        \* the value the last call returned (Zero when it returns None)
    calls,      \* the number of calls made so far
    paid,       \* the total of the amounts returned by withdraw_reward so far
    funded,     \* the total of the rewards of the successful distribute calls
    burned,     \* the total of the rewards distributed to a pool without
                \* active stake (gap policy, where that call succeeds)
    round,      \* what happened at and since the last successful distribute
    holding     \* deferred policy: for each account, whether it has only
                \* deposited once so far, and the rates distributed since

vars == << policy, contract, op, ret, calls, paid, funded, burned, round,
          holding >>

NoOp == [name |-> "init", address |-> 0, amount |-> 0, raised |-> "none",
         stale |-> FALSE, again |-> FALSE]

\* The account has not been settled since the last distribution.
Stale(self, address) ==
    self.distribution_id[address] # self.current_distribution_id

\* The reward an account can claim now, under the pool's policy.
compute_reward(self, address) ==
    IF policy = "deferred" THEN deferred_compute_reward(self, address)
    ELSE gap_compute_reward(self, address)

\* The stake of an account that a distribute call made now would reward.
ActiveStake(self, address) ==
    IF policy = "gap"
       /\ self.distribution_id[address] # self.current_distribution_id
    THEN self.stake[address] + self.pending_stake[address]
    ELSE self.stake[address]

\* The fields the instance keeps for one address.
AccountRecord(self, address) ==
    IF policy = "deferred"
    THEN [ stake           |-> self.stake[address],
           reward_tally    |-> self.reward_tally[address],
           rewarded_stake  |-> self.rewarded_stake[address],
           distribution_id |-> self.distribution_id[address] ]
    ELSE [ stake           |-> self.stake[address],
           reward_tally    |-> self.reward_tally[address],
           pending_stake   |-> self.pending_stake[address],
           distribution_id |-> self.distribution_id[address] ]

\* The forfeited reward waiting for redistribution (deferred policy only).
LostReward(self) == IF policy = "deferred" THEN self.lost_reward ELSE Zero

\* Nothing is owed to anybody: no account has a reward to claim and, in the
\* deferred policy, no forfeited reward waits for redistribution.
NothingUnclaimed(self) ==
    /\ \A a \in Addresses : compute_reward(self, a) = Zero
    /\ LostReward(self) = Zero

\* round: the reward of the last successful distribute, and the total stake,
\* the stake of each account, and the forfeited reward it was called with;
\* whether nothing was unclaimed then; whether a withdraw_stake succeeded
\* since, and which accounts forfeited reward by one (lostby: the accounts
\* that forfeited the reward it was called with); and what each account
\* has claimed since (claimed[a] = << >> when it has not called
\* withdraw_reward since, else << total returned to it >>).
NoRound ==
    [ reward   |-> 0,
      total    |-> 0,
      active   |-> [a \in Addresses |-> 0],
      lost     |-> Zero,
      lostby   |-> {},
      clean    |-> TRUE,
      withdrew |-> FALSE,
      forfeiters |-> {},
      claimed  |-> [a \in Addresses |-> << >>] ]

NextRound(name, address, amount, r) ==
    IF r.raised # "none" THEN round
    ELSE CASE name = "distribute" ->
                [ reward   |-> amount,
                  total    |-> contract.total_stake,
                  active   |-> [a \in Addresses |-> ActiveStake(contract, a)],
                  lost     |-> LostReward(contract),
                  lostby   |-> round.forfeiters,
                  clean    |-> NothingUnclaimed(contract),
                  withdrew |-> FALSE,
                  forfeiters |-> {},
                  claimed  |-> [a \in Addresses |-> << >>] ]
           [] name = "withdraw_stake" ->
                [round EXCEPT !.withdrew = TRUE,
                              !.forfeiters =
                                  IF LostReward(r.self) # LostReward(contract)
                                  THEN @ \cup {address} ELSE @]
           [] name = "withdraw_reward" ->
                [round EXCEPT !.claimed[address] =
                    IF @ = << >> THEN << r.value >> ELSE << Add(@[1], r.value) >>]
           [] OTHER -> round

\* holding[a]: "fresh" before the account's first call that changes
\* something; "held" from its first deposit_stake on, with n the number of
\* successful distributions since, last the rate of the latest one and
\* earlier the sum of the rates of the ones before it; "touched" once the
\* account has deposited again, withdrawn stake or claimed.  Followed in the
\* deferred policy only.
Fresh == [phase |-> "fresh", n |-> 0, earlier |-> Zero, last |-> Zero]

Touched == [phase |-> "touched", n |-> 0, earlier |-> Zero, last |-> Zero]

NextHolding(name, address, r) ==
    IF policy # "deferred" \/ r.raised # "none" THEN holding
    ELSE CASE name = "distribute" ->
                [a \in Addresses |->
                    IF holding[a].phase = "held"
                    THEN [phase   |-> "held",
                          n       |-> holding[a].n + 1,
                          earlier |-> Add(holding[a].earlier, holding[a].last),
                          last    |-> r.self.last_rate]
                    ELSE holding[a]]
           [] name = "deposit_stake" ->
                [holding EXCEPT ![address] =
                    IF @.phase = "fresh"
                    THEN [phase |-> "held", n |-> 0,
                          earlier |-> Zero, last |-> Zero]
                    ELSE Touched]
           [] name \in {"withdraw_stake", "withdraw_reward"} ->
                [holding EXCEPT ![address] = Touched]
           [] OTHER -> holding

Init ==
    /\ policy \in {"deferred", "gap"}
    /\ contract = IF policy = "deferred" THEN deferred_init ELSE gap_init
    /\ op = NoOp
    /\ ret = Zero
    /\ calls = 0
    /\ paid = Zero
    /\ funded = 0
    /\ burned = 0
    /\ round = NoRound
    /\ holding = [a \in Addresses |-> Fresh]

\* The staked total a deposit is measured against (active plus pending).
Staked(self) ==
    IF policy = "gap" THEN self.total_stake + self.total_pending_stake
    ELSE self.total_stake

\* The stake withdraw_stake validates the amount against.
ClaimableStake(self, address) ==
    IF policy = "gap"
    THEN self.stake[address] + self.pending_stake[address]
    ELSE self.stake[address]

\* One call: the instance takes the state the method leaves (its state at the
\* raise when the method raises), and the call and its result are recorded.
Call(name, address, amount, r) ==
    /\ calls < MaxCalls
    /\ calls' = calls + 1
    /\ contract' = r.self
    /\ op' = [name |-> name, address |-> address, amount |-> amount,
              raised |-> r.raised,
              stale |-> address \in Addresses /\ Stale(contract, address),
              again |-> /\ op.name = name
                        /\ op.address = address
                        /\ op.amount = amount]
    /\ ret' = r.value
    /\ paid' = IF name = "withdraw_reward" THEN Add(paid, r.value) ELSE paid
    /\ funded' = IF name = "distribute" /\ r.raised = "none"
                 THEN funded + amount ELSE funded
    /\ burned' = IF /\ name = "distribute"
                     /\ r.raised = "none"
                     /\ contract.total_stake = 0
                  THEN burned + amount ELSE burned
    /\ round' = NextRound(name, address, amount, r)
    /\ holding' = NextHolding(name, address, r)
    /\ UNCHANGED policy

Deferred_Distribute(reward) ==
    /\ policy = "deferred"
    /\ Call("distribute", 0, reward, deferred_distribute(contract, reward))

Deferred_DepositStake(address, amount) ==
    /\ policy = "deferred"
    /\ Staked(contract) + amount <= MaxStake
    /\ Call("deposit_stake", address, amount,
            deferred_deposit_stake(contract, address, amount))

\* Every amount above the account's stake takes the raise on the first
\* line; the smallest of them stands for all.
Deferred_WithdrawStake(address, amount) ==
    /\ policy = "deferred"
    /\ amount <= ClaimableStake(contract, address) + 1
    /\ Call("withdraw_stake", address, amount,
            deferred_withdraw_stake(contract, address, amount))

Deferred_WithdrawReward(address) ==
    /\ policy = "deferred"
    /\ Call("withdraw_reward", address, 0,
            deferred_withdraw_reward(contract, address))

\* compute_reward only reads the instance: the call leaves it as it is.
Deferred_ComputeReward(address) ==
    /\ policy = "deferred"
    /\ Call("compute_reward", address, 0,
            Return(contract, deferred_compute_reward(contract, address)))

Gap_Distribute(reward) ==
    /\ policy = "gap"
    /\ Call("distribute", 0, reward, gap_distribute(contract, reward))

Gap_DepositStake(address, amount) ==
    /\ policy = "gap"
    /\ Staked(contract) + amount <= MaxStake
    /\ Call("deposit_stake", address, amount,
            gap_deposit_stake(contract, address, amount))

\* Every amount above the account's active and pending stake takes the raise
\* on the first line; the smallest of them stands for all.
Gap_WithdrawStake(address, amount) ==
    /\ policy = "gap"
    /\ amount <= ClaimableStake(contract, address) + 1
    /\ Call("withdraw_stake", address, amount,
            gap_withdraw_stake(contract, address, amount))

Gap_WithdrawReward(address) ==
    /\ policy = "gap"
    /\ Call("withdraw_reward", address, 0,
            gap_withdraw_reward(contract, address))

\* compute_reward builds its result from local copies of stake and
\* reward_tally: the call leaves the instance as it is.
Gap_ComputeReward(address) ==
    /\ policy = "gap"
    /\ Call("compute_reward", address, 0,
            Return(contract, gap_compute_reward(contract, address)))

Next ==
    \/ \E reward \in 0..MaxReward : Deferred_Distribute(reward)
    \/ \E address \in Addresses, amount \in 0..MaxStake :
           Deferred_DepositStake(address, amount)
    \/ \E address \in Addresses, amount \in 0..MaxStake :
           Deferred_WithdrawStake(address, amount)
    \/ \E address \in Addresses : Deferred_WithdrawReward(address)
    \/ \E address \in Addresses : Deferred_ComputeReward(address)
    \/ \E reward \in 0..MaxReward : Gap_Distribute(reward)
    \/ \E address \in Addresses, amount \in 0..MaxStake :
           Gap_DepositStake(address, amount)
    \/ \E address \in Addresses, amount \in 0..MaxStake :
           Gap_WithdrawStake(address, amount)
    \/ \E address \in Addresses : Gap_WithdrawReward(address)
    \/ \E address \in Addresses : Gap_ComputeReward(address)

Spec == Init /\ [][Next]_vars

\* ============================================================== claims
\* C1.  A failing call has no observable effect.  withdraw_stake with an
\* amount above the account's claimable stake (deferred: stake; gap: stake +
\* pending_stake) raises, deferred distribute with total_stake = 0 raises, and
\* every call that raises leaves every field of the instance as it was.
C1_FailedCallChangesNothing ==
    [][ /\ ( /\ op'.name = "withdraw_stake"
             /\ op'.amount > ClaimableStake(contract, op'.address) )
           => op'.raised = InsufficientStake
        /\ ( /\ policy = "deferred"
             /\ op'.name = "distribute"
             /\ contract.total_stake = 0 )
           => op'.raised = EmptyPool
        /\ op'.raised # "none" => contract' = contract ]_vars

\* A withdraw_stake has just failed on an account that was stale and held
\* pending stake, so that settling it would have changed its record.
C1_Witness ==
    /\ policy = "gap"
    /\ op.name = "withdraw_stake"
    /\ op.raised = InsufficientStake
    /\ op.stale
    /\ contract.pending_stake[op.address] > 0

AllClaimed == \A a \in Addresses : round.claimed[a] # << >>

\* The total returned since the last distribution to the accounts of S.
RECURSIVE ClaimedBy(_)
ClaimedBy(S) ==
    IF S = {} THEN Zero
    ELSE LET a == CHOOSE x \in S : TRUE
         IN  Add(IF round.claimed[a] = << >> THEN Zero ELSE round.claimed[a][1],
                 ClaimedBy(S \ {a}))

\* A distribute call has succeeded.
Distributed == contract.current_distribution_id > 0

\* C3 as stated.  Deferred policy: from a pool with nothing unclaimed and
\* lost_reward = 0, after a successful distribute(R) and with no
\* withdraw_stake before every account has called withdraw_reward, the
\* amounts returned by those calls sum to R.
C3_ClaimsSumToReward ==
    ( /\ policy = "deferred"
      /\ Distributed
      /\ round.clean
      /\ ~round.withdrew
      /\ AllClaimed )
    => ClaimedBy(Addresses) = FromInt(round.reward)

\* C3 amended.  Deferred policy: after a successful distribute(R) called with
\* lost_reward = 0, and with no withdraw_stake before every account has
\* called withdraw_reward, the total of all amounts ever returned by
\* withdraw_reward equals the total of the rewards distributed before that
\* call: R itself is withheld until the next successful distribute.
C3_ClaimsSumToEarlierRewards ==
    ( /\ policy = "deferred"
      /\ Distributed
      /\ round.lost = Zero
      /\ ~round.withdrew
      /\ AllClaimed )
    => paid = FromInt(funded - round.reward)

\* After a second distribution every account has claimed: the reward of the
\* first one has been paid, that of the second one is withheld.
C3_Witness ==
    /\ policy = "deferred"
    /\ contract.current_distribution_id >= 2
    /\ round.lost = Zero
    /\ ~round.withdrew
    /\ AllClaimed
    /\ round.reward > 0
    /\ Less(Zero, paid)

\* C4.  Gap policy: from a pool with nothing unclaimed, after distribute(R)
\* called with total_stake > 0 and with no withdraw_stake since, each account
\* that calls withdraw_reward receives R * (its stake active at that
\* distribution) / total_stake, stake still pending at the distribution
\* earning nothing, and once every account has called it the amounts sum to R.
C4_GapConservation ==
    ( /\ policy = "gap"
      /\ Distributed
      /\ round.clean
      /\ round.total > 0
      /\ ~round.withdrew )
    => /\ \A a \in Addresses :
             round.claimed[a] # << >> =>
                 round.claimed[a][1] =
                     Div(FromInt(round.reward * round.active[a]),
                         FromInt(round.total))
       /\ AllClaimed => ClaimedBy(Addresses) = FromInt(round.reward)

\* An account whose stake was pending at a distribution of a positive reward
\* has claimed since, and got nothing, although its stake is active now.
C4_Witness ==
    /\ policy = "gap"
    /\ round.clean
    /\ round.total > 0
    /\ round.reward > 0
    /\ ~round.withdrew
    /\ \E a \in Addresses :
          /\ round.active[a] = 0
          /\ round.claimed[a] = << Zero >>
          /\ contract.stake[a] > 0

\* C5.  withdraw_reward called twice in a row on one address: the first call
\* returns a non-zero amount whenever compute_reward of the address was
\* non-zero, and the second call returns exactly zero.
C5_SecondClaimIsZero ==
    [][ op'.name = "withdraw_reward" =>
          /\ compute_reward(contract, op'.address) # Zero => ret' # Zero
          /\ op'.again => ret' = Zero ]_vars

\* A claim has just been repeated after a claim that paid something.
C5_Witness ==
    /\ op.name = "withdraw_reward"
    /\ op.again
    /\ ret = Zero
    /\ round.claimed[op.address] # << >>
    /\ Less(Zero, round.claimed[op.address][1])

\* C6 as stated.  In both policies, after withdraw_reward(a) the account is
\* settled and reward_tally[a] = stake[a] * reward_per_token.
C6_ClaimSettlesAndResetsTally ==
    op.name = "withdraw_reward" =>
        /\ ~Stale(contract, op.address)
        /\ contract.reward_tally[op.address] =
               Scale(contract.stake[op.address], contract.reward_per_token)

\* C6 amended.  Gap policy: after withdraw_reward(a) the account is settled
\* and reward_tally[a] = stake[a] * reward_per_token.  Deferred policy:
\* withdraw_reward(a) does not settle the account (distribution_id and
\* rewarded_stake keep their values) and leaves reward_tally[a] =
\* stake[a] * reward_per_token - previous_stake * last_rate, previous_stake
\* being stake[a] for a stale account and rewarded_stake[a] for a settled one.
C6_ClaimLeavesTally ==
    [][ op'.name = "withdraw_reward" =>
          LET a == op'.address IN
          IF policy = "gap"
          THEN /\ ~Stale(contract', a)
               /\ contract'.reward_tally[a] =
                      Scale(contract'.stake[a], contract'.reward_per_token)
          ELSE /\ contract'.distribution_id = contract.distribution_id
               /\ contract'.rewarded_stake = contract.rewarded_stake
               /\ contract'.reward_tally[a] =
                      Sub(Scale(contract.stake[a], contract.reward_per_token),
                          Scale(IF Stale(contract, a)
                                THEN contract.stake[a]
                                ELSE contract.rewarded_stake[a],
                                contract.last_rate)) ]_vars

\* A deferred-policy claim on a stale account with stake, after a
\* distribution with a positive rate: the account is still stale and its
\* tally is below stake * reward_per_token.
C6_Witness ==
    /\ policy = "deferred"
    /\ op.name = "withdraw_reward"
    /\ Stale(contract, op.address)
    /\ contract.stake[op.address] > 0
    /\ Less(contract.reward_tally[op.address],
            Scale(contract.stake[op.address], contract.reward_per_token))

\* C7.  The pool totals are the sums over the accounts.  Deferred policy:
\* total_stake is the sum of stake[a].  Gap policy: total_stake is the sum
\* of stake[a], plus pending_stake[a] for the stale accounts, and
\* total_pending_stake is the sum of pending_stake[a] over the settled ones.
C7_TotalsAreSums ==
    /\ contract.total_stake =
           SumOver([a \in Addresses |-> ActiveStake(contract, a)], Addresses)
    /\ policy = "gap" =>
           contract.total_pending_stake =
               SumOver([a \in Addresses |->
                           IF Stale(contract, a) THEN 0
                           ELSE contract.pending_stake[a]], Addresses)

\* Gap policy: one account is stale with pending stake that the last
\* distribution made active, another one has deposited since.
C7_Witness ==
    /\ policy = "gap"
    /\ \E a, b \in Addresses :
          /\ Stale(contract, a)
          /\ contract.pending_stake[a] > 0
          /\ ~Stale(contract, b)
          /\ contract.pending_stake[b] > 0
          /\ contract.current_distribution_id > 0

\* C8.  reward_per_token never decreases, and no call other than distribute
\* changes it.
C8_AccumulatorMonotonic ==
    [][ /\ Leq(contract.reward_per_token, contract'.reward_per_token)
        /\ contract'.reward_per_token # contract.reward_per_token
             => op'.name = "distribute" ]_vars

\* A second distribution has raised reward_per_token, in the deferred policy
\* with forfeited reward added to the reward.
C8_Witness ==
    /\ policy = "deferred"
    /\ op.name = "distribute"
    /\ op.raised = "none"
    /\ contract.current_distribution_id >= 2
    /\ Less(Zero, round.lost)
    /\ Less(Zero, contract.last_rate)

\* C9.  Gap policy: distribute(R) called with total_stake > 0 raises the
\* compute_reward of each account by exactly R * (stake[a], plus
\* pending_stake[a] if the account is stale) / total_stake; stake deposited in
\* the epoch the call ends takes no share of it.  Called with total_stake =
\* 0 it changes no account's compute_reward.
C9_PendingStakeTakesNoShare ==
    [][ (policy = "gap" /\ op'.name = "distribute") =>
          \A a \in Addresses :
             compute_reward(contract', a) =
                 IF contract.total_stake > 0
                 THEN Add(compute_reward(contract, a),
                          Div(FromInt(op'.amount * ActiveStake(contract, a)),
                              FromInt(contract.total_stake)))
                 ELSE compute_reward(contract, a) ]_vars

\* A positive reward has just been distributed; an account whose only stake
\* was deposited in the epoch the call ended has no reward, another has one.
C9_Witness ==
    /\ policy = "gap"
    /\ op.name = "distribute"
    /\ op.amount > 0
    /\ round.total > 0
    /\ \E a, b \in Addresses :
          /\ round.active[a] = 0
          /\ contract.stake[a] = 0
          /\ contract.pending_stake[a] > 0
          /\ compute_reward(contract, a) = Zero
          /\ Less(Zero, compute_reward(contract, b))

\* C10.  compute_reward applies the settlement correction without persisting
\* it: on a stale account it returns what it returns right after the account
\* is settled by deposit_stake(a, 0), and withdraw_reward(a) returns the value
\* compute_reward(a) had just before the call.
C10_ComputeRewardAnticipatesSettlement ==
    [][ /\ (op'.name = "deposit_stake" /\ op'.amount = 0) =>
              compute_reward(contract', op'.address) =
                  compute_reward(contract, op'.address)
        /\ op'.name = "withdraw_reward" =>
              ret' = compute_reward(contract, op'.address) ]_vars

\* deposit_stake(a, 0) has just settled a stale account that has a reward.
C10_Witness ==
    /\ op.name = "deposit_stake"
    /\ op.amount = 0
    /\ op.stale
    /\ ~Stale(contract, op.address)
    /\ Less(Zero, compute_reward(contract, op.address))

\* C11.  In both policies a stake change leaves the reward of the account as
\* it is: compute_reward(a) is the same before and after deposit_stake(a, x),
\* and the same before and after a successful withdraw_stake(a, x).
C11_StakeChangeKeepsReward ==
    [][ ( /\ op'.name \in {"deposit_stake", "withdraw_stake"}
          /\ op'.raised = "none" )
        => compute_reward(contract', op'.address) =
               compute_reward(contract, op'.address) ]_vars

\* An account that has a reward to claim has just withdrawn stake, and still
\* has that reward.
C11_Witness ==
    /\ op.name = "withdraw_stake"
    /\ op.raised = "none"
    /\ op.amount > 0
    /\ contract.current_distribution_id > 0
    /\ Less(Zero, compute_reward(contract, op.address))

\* C12.  Every call has a bounded footprint: distribute changes no field kept
\* for an address; compute_reward changes no field at all; deposit_stake,
\* withdraw_stake and withdraw_reward on address a change no field kept for
\* another address b, and do not change compute_reward(b).
C12_BoundedFootprint ==
    [][ /\ op'.name = "distribute" =>
              \A a \in Addresses :
                 AccountRecord(contract', a) = AccountRecord(contract, a)
        /\ op'.name = "compute_reward" => contract' = contract
        /\ op'.name \in {"deposit_stake", "withdraw_stake", "withdraw_reward"} =>
              \A b \in Addresses \ {op'.address} :
                 /\ AccountRecord(contract', b) = AccountRecord(contract, b)
                 /\ compute_reward(contract', b) = compute_reward(contract, b)
      ]_vars

\* An account has just been paid a reward while the other account, which has
\* stake and a reward of its own, is still to be settled.
C12_Witness ==
    /\ op.name = "withdraw_reward"
    /\ Less(Zero, ret)
    /\ \E b \in Addresses \ {op.address} :
          /\ Stale(contract, b)
          /\ ActiveStake(contract, b) > 0
          /\ Less(Zero, compute_reward(contract, b))

\* C13 as stated.  Deferred policy: compute_reward(a) weights last_rate by
\* rewarded_stake[a] when the account is stale and by stake[a] when it is
\* settled, and returns stake[a] * reward_per_token - reward_tally[a] -
\* (that stake) * last_rate.
C13_StaleUsesRewardedStake ==
    [][ (policy = "deferred" /\ op'.name = "compute_reward") =>
          LET a == op'.address IN
          ret' = Sub(Sub(Scale(contract.stake[a], contract.reward_per_token),
                         contract.reward_tally[a]),
                     Scale(IF Stale(contract, a)
                           THEN contract.rewarded_stake[a]
                           ELSE contract.stake[a],
                           contract.last_rate)) ]_vars

\* C13 amended.  Deferred policy: compute_reward(a) weights last_rate by
\* stake[a] when the account is stale and by rewarded_stake[a] when it is
\* settled, and returns stake[a] * reward_per_token - reward_tally[a] -
\* (that stake) * last_rate.
C13_StaleUsesCurrentStake ==
    [][ (policy = "deferred" /\ op'.name = "compute_reward") =>
          LET a == op'.address IN
          ret' = Sub(Sub(Scale(contract.stake[a], contract.reward_per_token),
                         contract.reward_tally[a]),
                     Scale(IF Stale(contract, a)
                           THEN contract.stake[a]
                           ELSE contract.rewarded_stake[a],
                           contract.last_rate)) ]_vars

\* compute_reward has just been called for a stale account whose stake
\* differs from its rewarded_stake, after a distribution with a positive
\* rate: the two weightings give different results.
C13_Witness ==
    /\ policy = "deferred"
    /\ op.name = "compute_reward"
    /\ op.stale
    /\ contract.stake[op.address] # contract.rewarded_stake[op.address]
    /\ Less(Zero, contract.last_rate)

\* What the pool has credited to an account and not yet paid: the reward it
\* can claim plus the share withheld from it.
Entitlement(self, address) ==
    Sub(Scale(self.stake[address], self.reward_per_token),
        self.reward_tally[address])

\* The reward a successful withdraw_stake(address, amount) forfeits in the
\* deferred policy: rewarded_amount * last_rate, rewarded_amount being
\* amount - min(amount, stake - rewarded_stake) after settlement.
Forfeited(self, address, amount) ==
    LET rewarded == IF Stale(self, address) THEN self.stake[address]
                    ELSE self.rewarded_stake[address]
    IN  Scale(amount - Min(amount, self.stake[address] - rewarded),
              self.last_rate)

\* C14 as stated.  Deferred policy: a successful withdraw_stake(a, amount)
\* adds exactly rewarded_amount * last_rate to lost_reward; the withdrawing
\* account never receives that reward, so the distribute that redistributes it
\* credits the account with its share of the new reward only; the next
\* successful distribute(reward) uses (reward + lost_reward) / total_stake as
\* its rate and resets lost_reward to 0.
C14_ForfeitedNeverReturns ==
    [][ policy = "deferred" /\ op'.raised = "none" =>
          /\ op'.name = "withdraw_stake" =>
                contract'.lost_reward =
                    Add(contract.lost_reward,
                        Forfeited(contract, op'.address, op'.amount))
          /\ op'.name = "distribute" =>
                /\ contract'.last_rate =
                       Div(Add(FromInt(op'.amount), contract.lost_reward),
                           FromInt(contract.total_stake))
                /\ contract'.lost_reward = Zero
                /\ \A a \in round.forfeiters :
                      Entitlement(contract', a) =
                          Add(Entitlement(contract, a),
                              Div(FromInt(op'.amount * contract.stake[a]),
                                  FromInt(contract.total_stake))) ]_vars

\* C14 amended.  Deferred policy: a successful withdraw_stake(a, amount) adds
\* exactly rewarded_amount * last_rate to lost_reward, pays nothing, and takes
\* that amount off what the pool has credited to the account; the next
\* successful distribute(reward) uses (reward + lost_reward) / total_stake as
\* its rate, resets lost_reward to 0, and credits every account, the
\* withdrawing one included, with stake[a] times that rate.
C14_ForfeitedIsRedistributed ==
    [][ policy = "deferred" /\ op'.raised = "none" =>
          /\ op'.name = "withdraw_stake" =>
                LET lost == Forfeited(contract, op'.address, op'.amount) IN
                /\ contract'.lost_reward = Add(contract.lost_reward, lost)
                /\ ret' = Zero
                /\ Entitlement(contract', op'.address) =
                       Sub(Entitlement(contract, op'.address), lost)
          /\ op'.name = "distribute" =>
                LET rate == Div(Add(FromInt(op'.amount), contract.lost_reward),
                                FromInt(contract.total_stake)) IN
                /\ contract'.last_rate = rate
                /\ contract'.lost_reward = Zero
                /\ \A a \in Addresses :
                      Entitlement(contract', a) =
                          Add(Entitlement(contract, a),
                              Scale(contract.stake[a], rate)) ]_vars

\* A distribution has just redistributed forfeited reward while an account
\* that forfeited part of it still has stake.
C14_Witness ==
    /\ policy = "deferred"
    /\ op.name = "distribute"
    /\ op.raised = "none"
    /\ Less(Zero, round.lost)
    /\ \E a \in round.lostby :
          /\ contract.stake[a] > 0
          /\ Less(Zero, Entitlement(contract, a))

\* C15.  Deferred policy: an account that deposits stake s once and then
\* neither changes its stake nor claims has, after n >= 1 successful
\* distributions with rates r_1 .. r_n, compute_reward = s * (r_1 + ... +
\* r_(n-1)): every distribution before the latest one is claimable, the
\* latest one is withheld.
C15_AllButLatestClaimable ==
    policy = "deferred" =>
        \A a \in Addresses :
           (holding[a].phase = "held" /\ holding[a].n >= 1) =>
               compute_reward(contract, a) =
                   Scale(contract.stake[a], holding[a].earlier)

\* An account that deposited once has been through three distributions, the
\* latest with a positive rate, and can claim the positive sum of the first
\* two.
C15_Witness ==
    /\ policy = "deferred"
    /\ \E a \in Addresses :
          /\ holding[a].phase = "held"
          /\ holding[a].n >= 3
          /\ contract.stake[a] > 0
          /\ Less(Zero, holding[a].last)
          /\ Less(Zero, holding[a].earlier)
          /\ Less(Zero, compute_reward(contract, a))

\* The total the two accounts (0x1, 0x2) can claim.
Claimable(self) == Add(compute_reward(self, 1), compute_reward(self, 2))

\* C16.  Gap policy: distribute never fails.  Called with total_stake = 0 it
\* does not add the reward to reward_per_token, and that reward is paid to
\* nobody, then or later: what has been paid plus what can be claimed is
\* always the total distributed to a pool with active stake.  The call still
\* records the history entry of the epoch, advances current_distribution_id
\* by exactly 1, adds total_pending_stake to total_stake and sets
\* total_pending_stake to 0.  No other call changes current_distribution_id.
C16_EmptyPoolDistribute ==
    [][ policy = "gap" =>
          /\ op'.name = "distribute" =>
                /\ op'.raised = "none"
                /\ contract'.current_distribution_id =
                       contract.current_distribution_id + 1
                /\ contract.current_distribution_id
                       \in DOMAIN contract'.reward_per_token_history
                /\ contract'.reward_per_token_history[contract.current_distribution_id]
                       = contract'.reward_per_token
                /\ contract'.total_stake =
                       contract.total_stake + contract.total_pending_stake
                /\ contract'.total_pending_stake = 0
                /\ contract.total_stake = 0 =>
                       contract'.reward_per_token = contract.reward_per_token
          /\ op'.name # "distribute" =>
                contract'.current_distribution_id =
                    contract.current_distribution_id
          /\ Add(paid', Claimable(contract')) = FromInt(funded' - burned') ]_vars

\* A reward distributed to a pool without active stake has been lost; the
\* stake that was pending at that call has since been paid the whole of a
\* later reward, and no more.
C16_Witness ==
    /\ policy = "gap"
    /\ burned > 0
    /\ funded > burned
    /\ paid = FromInt(funded - burned)

\* No account is ahead of the pool's epoch, the history has one entry for
\* each epoch that has ended, and so an entry for the epoch of every stale
\* account.
HistoryComplete(self) ==
    /\ \A a \in Addresses :
          self.distribution_id[a] <= self.current_distribution_id
    /\ DOMAIN self.reward_per_token_history =
           0 .. (self.current_distribution_id - 1)
    /\ \A a \in Addresses :
          Stale(self, a) =>
              self.distribution_id[a] \in DOMAIN self.reward_per_token_history

\* C17.  Gap policy: distribution_id[a] <= current_distribution_id for every
\* address, and reward_per_token_history has an entry for every epoch 0 ..
\* current_distribution_id - 1; each entry is the reward_per_token right
\* after the distribute that ended its epoch and is never modified later.
\* So the lookups of a stale account are defined, and its pending stake,
\* deposited in epoch distribution_id[a], is credited at the rate that epoch
\* ended with: it earns stake * (reward_per_token - that entry).
C17_HistoryCompleteAndImmutable ==
    [][ policy = "gap" =>
          /\ HistoryComplete(contract)
          /\ HistoryComplete(contract')
          /\ \A k \in DOMAIN contract.reward_per_token_history :
                contract'.reward_per_token_history[k] =
                    contract.reward_per_token_history[k]
          /\ op'.name = "distribute" =>
                contract'.reward_per_token_history[contract.current_distribution_id]
                    = contract'.reward_per_token
          /\ op'.name = "deposit_stake" =>
                contract'.distribution_id[op'.address] =
                    contract.current_distribution_id
          /\ \A a \in Addresses :
                Stale(contract', a) =>
                    compute_reward(contract', a) =
                        Add(Sub(Scale(contract'.stake[a], contract'.reward_per_token),
                                contract'.reward_tally[a]),
                            Scale(contract'.pending_stake[a],
                                  Sub(contract'.reward_per_token,
                                      contract'.reward_per_token_history[
                                          contract'.distribution_id[a]]))) ]_vars

\* Two epochs have ended with different rates, and an account that
\* deposited in the first one has not been settled since: its pending stake
\* has earned the difference.
C17_Witness ==
    /\ policy = "gap"
    /\ contract.current_distribution_id >= 2
    /\ contract.reward_per_token_history[0] # contract.reward_per_token_history[1]
    /\ \E a \in Addresses :
          /\ contract.distribution_id[a] = 0
          /\ contract.pending_stake[a] > 0
          /\ Less(Zero, compute_reward(contract, a))

\* C18.  Gap policy: a successful withdraw_stake(a, amount), after settling
\* the account, takes p = min(amount, pending_stake[a]) off pending_stake[a]
\* and total_pending_stake, takes amount - p off stake[a] and total_stake, and
\* takes reward_per_token * (amount - p) off reward_tally[a]; the active
\* stake and the tally change only when the amount exceeds the stake
\* deposited in the current epoch.
C18_PendingDrawnFirst ==
    [][ ( /\ policy = "gap"
          /\ op'.name = "withdraw_stake"
          /\ op'.raised = "none" ) =>
          LET a       == op'.address
              amount  == op'.amount
              pending == IF Stale(contract, a) THEN 0
                         ELSE contract.pending_stake[a]
              stake   == ActiveStake(contract, a)
              tally   == IF Stale(contract, a)
                         THEN Add(contract.reward_tally[a],
                                  Scale(contract.pending_stake[a],
                                        contract.reward_per_token_history[
                                            contract.distribution_id[a]]))
                         ELSE contract.reward_tally[a]
              p       == Min(amount, pending)
          IN  /\ contract'.pending_stake[a] = pending - p
              /\ contract'.total_pending_stake = contract.total_pending_stake - p
              /\ contract'.stake[a] = stake - (amount - p)
              /\ contract'.total_stake = contract.total_stake - (amount - p)
              /\ contract'.reward_tally[a] =
                     Sub(tally, Scale(amount - p, contract.reward_per_token))
              /\ amount <= pending =>
                     /\ contract'.stake[a] = stake
                     /\ contract'.total_stake = contract.total_stake
                     /\ contract'.reward_tally[a] = tally ]_vars

\* An account with active stake has deposited in the current epoch and has
\* just withdrawn: it still has all the stake the last distribution
\* rewarded, and the reward it earned.
C18_Witness ==
    /\ policy = "gap"
    /\ op.name = "withdraw_stake"
    /\ op.raised = "none"
    /\ op.amount > 0
    /\ ~op.stale
    /\ contract.current_distribution_id > 0
    /\ contract.stake[op.address] = round.active[op.address]
    /\ contract.stake[op.address] > 0
    /\ Less(Zero, compute_reward(contract, op.address))

\* C19.  Deferred policy, any interleaving of calls: the sum over the
\* accounts of stake[a] * reward_per_token - reward_tally[a], plus
\* lost_reward, plus the total returned so far by withdraw_reward, equals the
\* sum of the rewards passed to the successful distribute calls.
C19_DeferredConservation ==
    policy = "deferred" =>
        Add(Add(Entitlement(contract, 1), Entitlement(contract, 2)),
            Add(contract.lost_reward, paid)) = FromInt(funded)

\* Reward has been distributed, part of it has been paid, part of it has been
\* forfeited and waits in lost_reward, and part of it is still credited to
\* an account.
C19_Witness ==
    /\ policy = "deferred"
    /\ funded > 0
    /\ Less(Zero, paid)
    /\ Less(Zero, contract.lost_reward)
    /\ \E a \in Addresses : Less(Zero, Entitlement(contract, a))

\* C20.  No stake quantity is ever negative: stake[a] >= 0 and total_stake
\* >= 0 in both policies; pending_stake[a] >= 0 and total_pending_stake >= 0
\* in the gap policy; 0 <= rewarded_stake[a] <= stake[a] in the deferred
\* policy, so that stake[a] - rewarded_stake[a] is never below the 0 that
\* withdraw_stake clamps it to.
C20_NoNegativeStake ==
    /\ contract.total_stake >= 0
    /\ \A a \in Addresses : contract.stake[a] >= 0
    /\ policy = "gap" =>
          /\ contract.total_pending_stake >= 0
          /\ \A a \in Addresses : contract.pending_stake[a] >= 0
    /\ policy = "deferred" =>
          \A a \in Addresses :
             /\ 0 <= contract.rewarded_stake[a]
             /\ contract.rewarded_stake[a] <= contract.stake[a]

\* Deferred policy: an account all of whose stake is rewarded stake has
\* just withdrawn part of it, so that stake - rewarded_stake was 0 at the
\* clamp and still is; the other account has withdrawn all it had.
C20_Witness ==
    /\ policy = "deferred"
    /\ op.name = "withdraw_stake"
    /\ op.raised = "none"
    /\ op.amount > 0
    /\ op.stale
    /\ contract.stake[op.address] > 0
    /\ contract.rewarded_stake[op.address] = contract.stake[op.address]
    /\ \E b \in Addresses \ {op.address} :
          /\ contract.stake[b] = 0
          /\ holding[b].phase = "touched"

====
